---- MODULE Spec2Model ----
(***************************************************************************)
(* tetripin: a store of TOTP seeds (a TOML file), the OS keyring entry     *)
(* ("tetripin", "key") and the commands of the two command-line front ends *)
(* that read and rewrite them: src/tetripin/cli.py (format 3, password     *)
(* derived key) and src/tetripin/tetripin.py (format 1 -> 2, random key).  *)
(***************************************************************************)
EXTENDS Integers, Sequences, FiniteSets, TLC

\* ---------------------------------------------------------------- bounds
\* accounts a store may hold
MaxAccounts == 2
\* values drawn from the random source (keys, salts, nonces) in one run
MaxRng == 4

\* clock readings in one second: the clocks are read in 1/Subsecond s
Subsecond == 2
\* timer ticks of the tui in one run
MaxTicks == 31

\* ------------------------------------------------------- input alphabets
\* account labels as typed on the command line, as character sequences
Labels == {<<"a">>, <<"A", " ">>, <<" ">>}
\* TOTP seeds as typed on the command line, as character sequences
Seeds == {<<"X">>, <<"Y">>}
\* the secrets typed at add of tetripin.py: a seed, and a blank one
OldSeeds == {<<"X">>, <<" ">>}
Passwords == {"p1", "p2"}
\* the --format option of export
Formats == {"andotp", "other"}

VARIABLES
    file,     \* the secrets file: absent, zero-length, or a TOML document
    backup,   \* the <secrets_file>.bak copy
    keyring,  \* keyring entry ("tetripin", "key")
    rng,      \* how many values the random source has handed out
    mig,      \* upgrade_config in progress: position and local variables
    cmd,      \* the command of the running process, "none" between commands
    result,   \* how it ends
    out,      \* the (label, secret) pairs it resolved and prints
    race,     \* the commands that run at the same time: position and locals
    tui       \* the TOTPApp of the tui command: clocks, timer and shown codes

vars == <<file, backup, keyring, rng, mig, cmd, result, out, race, tui>>

\* -------------------------------------------------------------- strings
\* str.lower() on one character of the alphabet
Lower(c) == IF c = "A" THEN "a" ELSE IF c = "B" THEN "b" ELSE c

LowerStr(s) == [i \in 1..Len(s) |-> Lower(s[i])]

RECURSIVE LStrip(_)
LStrip(s) == IF s # <<>> /\ Head(s) = " " THEN LStrip(Tail(s)) ELSE s

RECURSIVE RStrip(_)
RStrip(s) == IF s # <<>> /\ s[Len(s)] = " " THEN RStrip(SubSeq(s, 1, Len(s) - 1)) ELSE s

\* str.strip()
Strip(s) == RStrip(LStrip(s))

\* label.lower().strip()
Normalise(label) == Strip(LowerStr(label))

\* ----------------------------------------------------------------- keys
NoKey == [kind |-> "none", pw |-> "", n |-> 0]

\* Fernet.generate_key(): n is the draw of the random source
generate_key(n) == [kind |-> "rand", pw |-> "", n |-> n]

\* PBKDF2(password, salt): a function of both, and nothing else
from_password(password, salt) == [kind |-> "pw", pw |-> password, n |-> salt]

\* -------------------------------------------------------- stored secrets
\* A stored secret is a text: a seed wrapped in zero or more Fernet layers,
\* innermost first; each layer is the key and the nonce it was made with.
Plain(seed) == [seed |-> seed, layers |-> <<>>]

IsToken(s) == s.layers # <<>>

\* the mutant of encrypt_to_text: the token does not depend on the nonce
encrypt_to_text_fixed(key, nonce, s) ==
    [s EXCEPT !.layers = Append(@, [k |-> key, n |-> 0])]

\* Fernet.encrypt under key with a fresh nonce
encrypt_to_text(key, nonce, s) ==
    [s EXCEPT !.layers = Append(@, [k |-> key, n |-> nonce])]

\* the mutant of CanDecrypt: the tag is not verified
CanDecryptAny(key, s) == IsToken(s)

\* Fernet.decrypt verifies the tag: it succeeds on a token made under key
CanDecrypt(key, s) == IsToken(s) /\ s.layers[Len(s.layers)].k = key

decrypt_from_text(key, s) ==
    [s EXCEPT !.layers = SubSeq(@, 1, Len(@) - 1)]

\* secret.strip(): a token has no blanks around it
StripSecret(s) == IF IsToken(s) THEN s ELSE Plain(Strip(s.seed))

IsBlank(s) == ~IsToken(s) /\ s.seed = <<>>

\* ------------------------------------------------------------- the file
Absent == [kind |-> "absent", fv |-> 0, salt |-> 0, account |-> <<>>]

\* a zero-length file, as open(.., "w") leaves it before anything is written
Truncated == [kind |-> "empty", fv |-> 0, salt |-> 0, account |-> <<>>]

Document(fv, salt, account) ==
    [kind |-> "store", fv |-> fv, salt |-> salt, account |-> account]

Entry(label, secret) == [label |-> label, secret |-> secret]

HasLabel(account, label) == \E i \in 1..Len(account) : account[i].label = label

IndexOf(account, label) == CHOOSE i \in 1..Len(account) : account[i].label = label

\* dict assignment: an existing key keeps its place, a new one goes last
Put(account, label, secret) ==
    IF HasLabel(account, label)
    THEN [account EXCEPT ![IndexOf(account, label)].secret = secret]
    ELSE Append(account, Entry(label, secret))

\* dict.pop(label)
Pop(account, label) ==
    LET i == IndexOf(account, label)
    IN SubSeq(account, 1, i - 1) \o SubSeq(account, i + 1, Len(account))

Lookup(account, label) == account[IndexOf(account, label)].secret

\* load_secrets_from_toml: "" when the file parses and has format_version
\* and account, else the error it raises
load_secrets_from_toml(f) ==
    IF f.kind = "store" THEN "" ELSE "TetripinError"

\* build_secret_map_from_toml's loop over data["account"].items(), entry by
\* entry in file order; map is the dict built so far
RECURSIVE BuildLoop(_, _, _)
BuildLoop(key, account, map) ==
    IF account = <<>> THEN [err |-> "", map |-> map]
    ELSE LET label == Normalise(Head(account).label)
             secret == StripSecret(Head(account).secret)
         IN IF label = <<>> THEN BuildLoop(key, Tail(account), map)
            ELSE IF IsBlank(secret) THEN [err |-> "TetripinError", map |-> <<>>]
            ELSE IF key # NoKey /\ ~CanDecrypt(key, secret)
                 THEN [err |-> "InvalidToken", map |-> <<>>]
            ELSE BuildLoop(key, Tail(account),
                           Put(map, label, IF key # NoKey
                                           THEN decrypt_from_text(key, secret)
                                           ELSE secret))

build_secret_map_from_toml(key, f) ==
    IF load_secrets_from_toml(f) # "" THEN [err |-> "TetripinError", map |-> <<>>]
    ELSE BuildLoop(key, f.account, <<>>)

\* get_secrets' loop (tetripin.py): decrypts when format_version > 1; its
\* click.fail does not exist, so a blank secret ends in AttributeError
RECURSIVE GetSecretsLoop(_, _, _, _)
GetSecretsLoop(key, fv, account, map) ==
    IF account = <<>> THEN [err |-> "", map |-> map]
    ELSE LET label == Normalise(Head(account).label)
             secret == StripSecret(Head(account).secret)
         IN IF label = <<>> THEN GetSecretsLoop(key, fv, Tail(account), map)
            ELSE IF IsBlank(secret) THEN [err |-> "AttributeError", map |-> <<>>]
            ELSE IF fv > 1 /\ ~CanDecrypt(key, secret)
                 THEN [err |-> "InvalidToken", map |-> <<>>]
            ELSE GetSecretsLoop(key, fv, Tail(account),
                                Put(map, label, IF fv > 1
                                                THEN decrypt_from_text(key, secret)
                                                ELSE secret))

get_secrets(key, f) ==
    IF f.kind # "store" THEN [err |-> "UsageError", map |-> <<>>]
    ELSE GetSecretsLoop(key, f.fv, f.account, <<>>)

\* for account, secret in secrets_map.items(): encrypt under key, the i-th
\* with the i-th nonce after r
EncryptAll(key, r, map) ==
    [i \in 1..Len(map) |->
        Entry(map[i].label, encrypt_to_text(key, r + i, map[i].secret))]

\* ----------------------------------------------------- command records
R(status, msg) == [status |-> status, msg |-> msg]

Ok == R("ok", "")

NoMig == [pc |-> "idle", pre |-> Absent, old_key |-> NoKey, salt |-> 0,
          map |-> <<>>, key |-> NoKey, data |-> Absent]

\* no command runs beside the one of cmd
NoRace == <<>>

\* the commands that can run at the same time
Procs == {1, 2}

\* the labels they are given
RaceLabels == {<<"a">>, <<"b">>}

\* a command that has not started
Idle == [pc |-> "idle", op |-> "", account |-> <<>>, secret |-> <<>>,
         key |-> [kind |-> "none", pw |-> "", n |-> 0],
         data |-> [kind |-> "absent", fv |-> 0, salt |-> 0, account |-> <<>>],
         res |-> [status |-> "none", msg |-> ""]]

\* the tui command does not run
NoTui == [pc |-> "off", now |-> 0, mono |-> 0, ticks |-> 0, secrets_map |-> <<>>,
          remaining |-> 0, shown |-> {}]

\* a pre-existing clear-text store (format 1), written by hand
V1Stores ==
    { Document(1, 0, <<Entry(<<"A">>, Plain(<<"X">>))>>),
      Document(1, 0, <<Entry(<<"A">>, Plain(<<"X">>)), Entry(<<"b">>, Plain(<<"Y">>))>>) }

Init ==
    /\ file \in {Absent} \cup V1Stores
    /\ backup = Absent
    /\ keyring = NoKey
    /\ rng = 0
    /\ mig = NoMig
    /\ cmd = "none"
    /\ result = R("none", "")
    /\ out = <<>>
    /\ race = NoRace
    /\ tui = NoTui

\* ------------------------------------------------ cli.py: the group
\* ensure_secrets_file: a missing secrets.toml is created
\* (format_version 2, no account, salt = token_bytes(16), the draw n)
ensure_secrets_file(f, n) ==
    IF f.kind = "absent" THEN Document(2, n, <<>>) ELSE f

\* the draws ensure_secrets_file takes
EnsureDraws(f) == IF f.kind = "absent" THEN 1 ELSE 0

\* cli(): the message the group callback fails with before the subcommand
\* runs, "" when it lets the subcommand run
cli(sub, f, key) ==
    IF load_secrets_from_toml(f) # "" THEN "TetripinError"
    ELSE IF sub # "upgrade-config" /\ f.fv # 3 THEN "old unsecured config"
    ELSE IF sub # "upgrade-config" /\ key = NoKey /\ sub # "unlock" THEN "locked"
    ELSE ""

\* what every command of cli.py leaves behind when the group stops it
Stopped(name, msg) ==
    /\ file' = ensure_secrets_file(file, rng + 1)
    /\ rng' = rng + EnsureDraws(file)
    /\ cmd' = name
    /\ result' = R("fail", msg)
    /\ out' = <<>>
    /\ UNCHANGED <<backup, keyring, mig>>

\* listsecrets
Listsecrets ==
    /\ cmd = "none"
    /\ rng + EnsureDraws(file) <= MaxRng
    /\ LET f0 == ensure_secrets_file(file, rng + 1)
           gate == cli("listsecrets", f0, keyring)
           m == build_secret_map_from_toml(keyring, f0)
       IN IF gate # "" THEN Stopped("listsecrets", gate)
          ELSE /\ cmd' = "listsecrets"
               /\ result' = IF m.err = "" THEN Ok
                            ELSE IF m.err = "TetripinError" THEN R("fail", m.err)
                            ELSE R("crash", m.err)
               /\ out' = m.map
               /\ UNCHANGED <<file, backup, keyring, rng, mig>>
    /\ UNCHANGED <<race, tui>>

\* gen: account = account.strip().lower()
GenLookup(account) == Strip(LowerStr(account))

\* gen ACCOUNT
Gen(account) ==
    /\ cmd = "none"
    /\ rng + EnsureDraws(file) <= MaxRng
    /\ LET f0 == ensure_secrets_file(file, rng + 1)
           gate == cli("gen", f0, keyring)
           m == build_secret_map_from_toml(keyring, f0)
           q == GenLookup(account)
       IN IF gate # "" THEN Stopped("gen", gate)
          ELSE /\ cmd' = "gen"
               /\ IF m.err # ""
                  THEN /\ result' = IF m.err = "TetripinError" THEN R("fail", m.err)
                                    ELSE R("crash", m.err)
                       /\ out' = <<>>
                  ELSE IF m.map = <<>>
                  THEN result' = R("fail", "No account listed") /\ out' = <<>>
                  ELSE IF ~HasLabel(m.map, q)
                  THEN result' = R("fail", "No account named") /\ out' = <<>>
                  ELSE IF IsToken(Lookup(m.map, q)) \/ IsBlank(StripSecret(Lookup(m.map, q)))
                  THEN result' = R("crash", "binascii.Error") /\ out' = <<>>
                  ELSE result' = Ok /\ out' = <<Entry(q, Lookup(m.map, q))>>
               /\ UNCHANGED <<file, backup, keyring, rng, mig>>
    /\ UNCHANGED <<race, tui>>

\* add: account in data["account"]
AddExists(account, label) == HasLabel(account, label)

\* add ACCOUNT SECRET
Add(account, secret) ==
    /\ cmd = "none"
    /\ rng + EnsureDraws(file) <= MaxRng
    /\ LET f0 == ensure_secrets_file(file, rng + 1)
           r0 == rng + EnsureDraws(file)
           gate == cli("add", f0, keyring)
       IN IF gate # "" THEN Stopped("add", gate)
          ELSE IF AddExists(f0.account, account)
          THEN /\ cmd' = "add"
               /\ result' = R("crash", "AttributeError")
               /\ out' = <<>>
               /\ UNCHANGED <<file, backup, keyring, rng, mig>>
          ELSE /\ Len(f0.account) < MaxAccounts
               /\ r0 + 1 <= MaxRng
               /\ cmd' = "add"
               /\ file' = [f0 EXCEPT !.account =
                              Put(@, account,
                                  IF f0.fv = 1 THEN Plain(secret)
                                  ELSE encrypt_to_text(keyring, r0 + 1, Plain(secret)))]
               /\ rng' = IF f0.fv = 1 THEN r0 ELSE r0 + 1
               /\ result' = Ok
               /\ out' = <<>>
               /\ UNCHANGED <<backup, keyring, mig>>
    /\ UNCHANGED <<race, tui>>

\* rm ACCOUNT
Rm(account) ==
    /\ cmd = "none"
    /\ rng + EnsureDraws(file) <= MaxRng
    /\ LET f0 == ensure_secrets_file(file, rng + 1)
           gate == cli("rm", f0, keyring)
       IN IF gate # "" THEN Stopped("rm", gate)
          ELSE IF ~HasLabel(f0.account, account)
          THEN /\ cmd' = "rm"
               /\ result' = R("crash", "AttributeError")
               /\ out' = <<>>
               /\ UNCHANGED <<file, backup, keyring, rng, mig>>
          ELSE /\ cmd' = "rm"
               /\ file' = [f0 EXCEPT !.account = Pop(@, account)]
               /\ result' = Ok
               /\ out' = <<Entry(account, Lookup(f0.account, account))>>
               /\ UNCHANGED <<backup, keyring, rng, mig>>
    /\ UNCHANGED <<race, tui>>

\* AndOTPExportFormat(...): one record of the exported file; last_used, the
\* time of the export, is left out
ExportRecord(name, secret) ==
    [secret |-> secret, label |-> name, tags |-> <<>>, used_frequency |-> 0,
     digits |-> 6, period |-> 30, algorithm |-> "SHA1", thumbnail |-> "Default",
     type |-> "TOTP", issuer |-> "tetripin"]

\* for name, secret in secrets_map.items(): export.append(...)
ExportAll(map) ==
    [i \in 1..Len(map) |-> ExportRecord(map[i].label, map[i].secret)]

\* the items of the dict toml.load returns for a store, in the order
\* toml.dump wrote them: the values first, then the account table
TopLevel(f) ==
    <<Entry(<<"format_version">>, [int |-> f.fv])>>
    \o (IF f.salt # 0 THEN <<Entry(<<"salt">>, [text |-> f.salt])>> ELSE <<>>)
    \o <<Entry(<<"account">>, [table |-> f.account])>>

\* export PATH --format FORMAT; out is what is written at PATH
Export(format) ==
    /\ cmd = "none"
    /\ rng + EnsureDraws(file) <= MaxRng
    /\ LET f0 == ensure_secrets_file(file, rng + 1)
           gate == cli("export", f0, keyring)
       IN IF gate # "" THEN Stopped("export", gate)
          ELSE /\ cmd' = "export"
               /\ IF format # "andotp"
                  THEN result' = R("fail", "Only andotp is supported for now.")
                       /\ out' = <<>>
                  ELSE result' = Ok /\ out' = ExportAll(TopLevel(f0))
               /\ UNCHANGED <<file, backup, keyring, rng, mig>>
    /\ UNCHANGED <<race, tui>>

\* the mutant of UnlockVerdict: the derived key is cached whatever the
\* verification says
UnlockVerdictLax(err) == Ok

\* unlock: how build_secret_map_from_toml's outcome ends the command
UnlockVerdict(err) ==
    IF err = "" THEN Ok
    ELSE IF err = "InvalidToken" THEN R("fail", "This password is incorrect")
    ELSE R("fail", err)

\* unlock, the password typed at the prompt being pw
Unlock(pw) ==
    /\ cmd = "none"
    /\ rng + EnsureDraws(file) <= MaxRng
    /\ LET f0 == ensure_secrets_file(file, rng + 1)
           gate == cli("unlock", f0, keyring)
           key == from_password(pw, f0.salt)
           verdict == UnlockVerdict(build_secret_map_from_toml(key, f0).err)
       IN IF gate # "" THEN Stopped("unlock", gate)
          ELSE /\ cmd' = "unlock"
               /\ result' = verdict
               /\ keyring' = IF verdict = Ok THEN key ELSE keyring
               /\ out' = <<>>
               /\ UNCHANGED <<file, backup, rng, mig>>
    /\ UNCHANGED <<race, tui>>

\* lock, confirm being the answer to "Lock the codes?"
Lock(confirm) ==
    /\ cmd = "none"
    /\ rng + EnsureDraws(file) <= MaxRng
    /\ LET f0 == ensure_secrets_file(file, rng + 1)
           gate == cli("lock", f0, keyring)
       IN IF gate # "" THEN Stopped("lock", gate)
          ELSE /\ cmd' = "lock"
               /\ result' = IF confirm THEN Ok ELSE R("fail", "Aborted")
               /\ keyring' = IF confirm THEN NoKey ELSE keyring
               /\ out' = <<>>
               /\ UNCHANGED <<file, backup, rng, mig>>
    /\ UNCHANGED <<race, tui>>

\* ------------------------------------------- cli.py: upgrade_config
\* the format_version upgrade_config writes
UpgradeVersion == 3

\* the mutant of UpgradeData: the secrets are encrypted under the key the
\* keyring held before
UpgradeDataOldKey(m, r) ==
    Document(UpgradeVersion, m.salt, EncryptAll(m.old_key, r, m.map))

\* a second mutant of UpgradeData: the salt the key was derived with is not
\* the one written in the document
UpgradeDataOtherSalt(m, r) ==
    Document(UpgradeVersion, m.salt + 1, EncryptAll(m.key, r, m.map))

\* data, once the loop of lines 272-273 has filled data["account"]
UpgradeData(m, r) ==
    Document(UpgradeVersion, m.salt, EncryptAll(m.key, r, m.map))

\* the mutant of UpgradeBackup: no copy is made
UpgradeBackupNone(f, b) == b

\* shutil.copyfile(secrets_file, backup_file)
UpgradeBackup(f, b) == f

\* lines 236-266: the group, the load, the backup, the salt, the old secrets
UpgradeStart ==
    /\ cmd = "none"
    /\ rng + EnsureDraws(file) + 1 <= MaxRng
    /\ LET f0 == ensure_secrets_file(file, rng + 1)
           r0 == rng + EnsureDraws(file)
           gate == cli("upgrade-config", f0, keyring)
           m == build_secret_map_from_toml(keyring, f0)
       IN IF gate # "" THEN Stopped("upgrade-config", gate)
          ELSE /\ cmd' = "upgrade-config"
               /\ file' = f0
               /\ backup' = UpgradeBackup(f0, backup)
               /\ rng' = r0 + 1
               /\ out' = <<>>
               /\ UNCHANGED keyring
               /\ IF m.err # ""
                  THEN /\ result' = IF m.err = "TetripinError" THEN R("fail", m.err)
                                    ELSE R("crash", m.err)
                       /\ mig' = NoMig
                  ELSE /\ result' = R("running", "")
                       /\ mig' = [NoMig EXCEPT !.pc = "resolved", !.pre = f0,
                                               !.old_key = keyring,
                                               !.salt = r0 + 1, !.map = m.map]
    /\ UNCHANGED <<race, tui>>

\* lines 268-270: the password is chosen, the key derived and put in the keyring
UpgradePrompt(pw) ==
    /\ mig.pc = "resolved"
    /\ LET new_key == from_password(pw, mig.salt)
       IN /\ mig' = [mig EXCEPT !.pc = "keyed", !.key = new_key]
          /\ keyring' = new_key
          /\ UNCHANGED <<file, backup, rng, cmd, result, out>>
    /\ UNCHANGED <<race, tui>>

\* the prompt is interrupted
UpgradePromptAbort ==
    /\ mig.pc = "resolved"
    /\ mig' = [mig EXCEPT !.pc = "idle"]
    /\ result' = R("fail", "Aborted")
    /\ UNCHANGED <<file, backup, keyring, rng, cmd, out>>
    /\ UNCHANGED <<race, tui>>

\* lines 272-275: the secrets are encrypted, the file is opened for writing
UpgradeOpen ==
    /\ mig.pc = "keyed"
    /\ rng + Len(mig.map) <= MaxRng
    /\ mig' = [mig EXCEPT !.pc = "opened", !.data = UpgradeData(mig, rng)]
    /\ rng' = rng + Len(mig.map)
    /\ file' = Truncated
    /\ UNCHANGED <<backup, keyring, cmd, result, out>>
    /\ UNCHANGED <<race, tui>>

\* line 276 raises OSError: nothing is written in the opened file
UpgradeDumpError ==
    /\ mig.pc = "opened"
    /\ mig' = [mig EXCEPT !.pc = "idle"]
    /\ result' = R("crash", "OSError")
    /\ UNCHANGED <<file, backup, keyring, rng, cmd, out>>
    /\ UNCHANGED <<race, tui>>

\* lines 276-283: the document is written, the key stored again
UpgradeDump ==
    /\ mig.pc = "opened"
    /\ file' = mig.data
    /\ keyring' = mig.key
    /\ mig' = [mig EXCEPT !.pc = "idle"]
    /\ result' = Ok
    /\ UNCHANGED <<backup, rng, cmd, out>>
    /\ UNCHANGED <<race, tui>>

\* ------------------------------------------------ tetripin.py: the group
\* enrypted_data, once the loop of lines 158-161 has filled it
ConvertData(key, r, map) == Document(2, 0, EncryptAll(key, r, map))

\* the mutant of NeedsConversion: every store not at format 2 is converted
NeedsConversionNot2(f) == f.fv # 2

\* if data["format_version"] == 1
NeedsConversion(f) == f.fv = 1

\* cli() of tetripin.py: a key is made when the keyring has none, a missing
\* secrets.toml is created (format_version 2, no salt), and a format 1 store
\* is converted when the user confirms
OldCli(confirm, f, k, r) ==
    LET k1 == IF k = NoKey THEN generate_key(r + 1) ELSE k
        r1 == IF k = NoKey THEN r + 1 ELSE r
        f1 == IF f.kind = "absent" THEN Document(2, 0, <<>>) ELSE f
        m == get_secrets(k1, f1)
    IN IF f1.kind # "store"
       THEN [file |-> f1, keyring |-> k1, rng |-> r1, res |-> R("fail", "UsageError")]
       ELSE IF NeedsConversion(f1) /\ confirm
       THEN IF m.err # ""
            THEN [file |-> f1, keyring |-> k1, rng |-> r1, res |-> R("crash", m.err)]
            ELSE [file |-> ConvertData(k1, r1, m.map), keyring |-> k1,
                  rng |-> r1 + Len(m.map), res |-> Ok]
       ELSE [file |-> f1, keyring |-> k1, rng |-> r1, res |-> Ok]

\* listsecrets of tetripin.py
OldListsecrets(confirm) ==
    /\ cmd = "none"
    /\ LET g == OldCli(confirm, file, keyring, rng)
           m == get_secrets(g.keyring, g.file)
       IN /\ g.rng <= MaxRng
          /\ cmd' = "old-listsecrets"
          /\ file' = g.file
          /\ keyring' = g.keyring
          /\ rng' = g.rng
          /\ result' = IF g.res # Ok THEN g.res
                       ELSE IF m.err # "" THEN R("crash", m.err) ELSE Ok
          /\ out' = IF g.res = Ok THEN m.map ELSE <<>>
          /\ UNCHANGED <<backup, mig>>
    /\ UNCHANGED <<race, tui>>

\* add ACCOUNT SECRET of tetripin.py
OldAdd(confirm, account, secret) ==
    /\ cmd = "none"
    /\ LET g == OldCli(confirm, file, keyring, rng)
           exists == g.res = Ok /\ AddExists(g.file.account, account)
           written == g.res = Ok /\ ~exists
           encrypted == written /\ g.file.fv # 1
       IN /\ g.rng + (IF encrypted THEN 1 ELSE 0) <= MaxRng
          /\ written => Len(g.file.account) < MaxAccounts
          /\ cmd' = "old-add"
          /\ file' = IF written
                     THEN [g.file EXCEPT !.account =
                              Put(@, account,
                                  IF g.file.fv = 1 THEN Plain(secret)
                                  ELSE encrypt_to_text(g.keyring, g.rng + 1, Plain(secret)))]
                     ELSE g.file
          /\ keyring' = g.keyring
          /\ rng' = g.rng + (IF encrypted THEN 1 ELSE 0)
          /\ result' = IF g.res # Ok THEN g.res
                       ELSE IF exists THEN R("crash", "AttributeError") ELSE Ok
          /\ out' = <<>>
          /\ UNCHANGED <<backup, mig>>
    /\ UNCHANGED <<race, tui>>

\* rm ACCOUNT of tetripin.py
OldRm(confirm, account) ==
    /\ cmd = "none"
    /\ LET g == OldCli(confirm, file, keyring, rng)
           exists == g.res = Ok /\ HasLabel(g.file.account, account)
       IN /\ g.rng <= MaxRng
          /\ cmd' = "old-rm"
          /\ file' = IF exists THEN [g.file EXCEPT !.account = Pop(@, account)]
                     ELSE g.file
          /\ keyring' = g.keyring
          /\ rng' = g.rng
          /\ result' = IF g.res # Ok THEN g.res
                       ELSE IF exists THEN Ok ELSE R("crash", "AttributeError")
          /\ out' = IF exists THEN <<Entry(account, Lookup(g.file.account, account))>>
                    ELSE <<>>
          /\ UNCHANGED <<backup, mig>>
    /\ UNCHANGED <<race, tui>>

\* export PATH --format FORMAT of tetripin.py
OldExport(confirm, format) ==
    /\ cmd = "none"
    /\ LET g == OldCli(confirm, file, keyring, rng)
           m == get_secrets(g.keyring, g.file)
       IN /\ g.rng <= MaxRng
          /\ cmd' = "old-export"
          /\ file' = g.file
          /\ keyring' = g.keyring
          /\ rng' = g.rng
          /\ result' = IF g.res # Ok THEN g.res
                       ELSE IF format # "andotp"
                       THEN R("fail", "Only andotp is supported for now.")
                       ELSE IF m.err # "" THEN R("crash", m.err) ELSE Ok
          /\ out' = IF g.res = Ok /\ format = "andotp" /\ m.err = ""
                    THEN ExportAll(m.map) ELSE <<>>
          /\ UNCHANGED <<backup, mig>>
    /\ UNCHANGED <<race, tui>>

\* main(): the command has ended and its process exits
Exit ==
    /\ cmd # "none"
    /\ mig.pc = "idle"
    /\ cmd' = "none"
    /\ result' = R("none", "")
    /\ out' = <<>>
    /\ mig' = NoMig
    /\ UNCHANGED <<file, backup, keyring, rng>>
    /\ UNCHANGED <<race, tui>>

\* ------------------------- cli.py: add and rm, run at the same time
\* The steps of add and rm when several commands run on one store file: the
\* group (which reads the keyring), the load of the file, and the write.

\* lines 40-64: the group lets command p run, or stops it
RaceGroup(p, op, account, secret) ==
    /\ race[p].pc = "idle"
    /\ LET gate == cli(op, file, keyring)
       IN race' = [race EXCEPT ![p] =
                     IF gate # ""
                     THEN [@ EXCEPT !.pc = "done", !.op = op, !.account = account,
                                    !.secret = secret, !.res = R("fail", gate)]
                     ELSE [@ EXCEPT !.pc = "grouped", !.op = op, !.account = account,
                                    !.secret = secret, !.key = keyring]]
    /\ UNCHANGED <<file, backup, keyring, rng, mig, cmd, result, out, tui>>

\* add, lines 125-132, and rm, lines 151-158: data = load_secrets_from_toml(..)
\* and the test of the label
RaceLoad(p) ==
    /\ race[p].pc = "grouped"
    /\ race' = [race EXCEPT ![p] =
                  IF load_secrets_from_toml(file) # ""
                  THEN [@ EXCEPT !.pc = "done", !.res = R("fail", "TetripinError")]
                  ELSE IF \/ @.op = "add" /\ AddExists(file.account, @.account)
                          \/ @.op = "rm" /\ ~HasLabel(file.account, @.account)
                  THEN [@ EXCEPT !.pc = "done", !.res = R("crash", "AttributeError")]
                  ELSE [@ EXCEPT !.pc = "loaded", !.data = file]]
    /\ UNCHANGED <<file, backup, keyring, rng, mig, cmd, result, out, tui>>

\* the mutant of RaceBase: the file is read again when it is written
RaceBaseReload(data, f) == f

\* the document the write starts from: the data loaded, not the file f
RaceBase(data, f) == data

\* add, lines 134-142, and rm, lines 160-165: the account is put in or taken
\* out of data, and data is written over the file
RaceDump(p) ==
    /\ race[p].pc = "loaded"
    /\ LET c == race[p]
           base == RaceBase(c.data, file)
       IN IF c.op = "add"
          THEN /\ rng + 1 <= MaxRng
               /\ Len(base.account) < MaxAccounts
               /\ file' = [base EXCEPT !.account =
                              Put(@, c.account,
                                  IF base.fv = 1 THEN Plain(c.secret)
                                  ELSE encrypt_to_text(c.key, rng + 1, Plain(c.secret)))]
               /\ rng' = rng + 1
          ELSE /\ file' = [base EXCEPT !.account = Pop(@, c.account)]
               /\ rng' = rng
    /\ race' = [race EXCEPT ![p] = [@ EXCEPT !.pc = "done", !.res = Ok]]
    /\ UNCHANGED <<backup, keyring, mig, cmd, result, out, tui>>

\* ---------------------------------------------------- tui.py: TOTPApp
\* self.interval: the TOTP time interval, in seconds
Interval == 30

\* the filters typed in the Input widget
Filters == {<<>>, <<"a">>, <<"b">>}

\* account_filter in account
Contains(account, account_filter) ==
    \E i \in 0..(Len(account) - Len(account_filter)) :
       SubSeq(account, i + 1, i + Len(account_filter)) = account_filter

\* pyotp.TOTP(seed).now(): the code is a function of the seed and of the
\* time step floor(time.time() / 30); now is the wall clock in 1/Subsecond s
TimeStep(now) == now \div (Interval * Subsecond)

\* calculate_codes: the dict account -> code, a code being its seed and
\* the time step it was computed for
calculate_codes(secrets_map, account_filter, now) ==
    { [account |-> secrets_map[i].label, seed |-> secrets_map[i].secret.seed,
       step |-> TimeStep(now)] :
        i \in { j \in 1..Len(secrets_map) :
                  account_filter = <<>> \/ Contains(secrets_map[j].label, account_filter) } }

\* calculate_remaining_time: floor(interval - (monotonic() % interval)),
\* mono being the monotonic clock in 1/Subsecond s
calculate_remaining_time(mono) ==
    (Interval * Subsecond - (mono % (Interval * Subsecond))) \div Subsecond

\* update_timer: if self.remaining_time == 0
RefreshDue(remaining_time) == remaining_time = 0

\* the tui command: TOTPApp.__init__ and on_mount, the wall clock reading
\* now and the monotonic clock mono
TuiMount(now, mono) ==
    /\ cmd = "none" /\ tui.pc = "off"
    /\ cli("tui", file, keyring) = ""
    /\ LET m == build_secret_map_from_toml(keyring, file)
       IN IF m.err = "InvalidToken"
          THEN /\ result' = R("crash", m.err)
               /\ tui' = [tui EXCEPT !.pc = "ended"]
          ELSE /\ result' = R("running", "")
               /\ tui' = [pc |-> "mounted", now |-> now, mono |-> mono, ticks |-> 0,
                          secrets_map |-> m.map,
                          remaining |-> calculate_remaining_time(mono),
                          shown |-> calculate_codes(m.map, <<>>, now)]
    /\ cmd' = "tui"
    /\ out' = <<>>
    /\ UNCHANGED <<file, backup, keyring, rng, mig, race>>

\* one second later the timer calls update_timer
TuiTick ==
    /\ tui.pc \in {"mounted", "ticked"}
    /\ tui.ticks < MaxTicks
    /\ LET now == tui.now + Subsecond
           mono == tui.mono + Subsecond
           remaining_time == calculate_remaining_time(mono)
       IN tui' = [tui EXCEPT !.pc = "ticked", !.now = now, !.mono = mono,
                             !.ticks = @ + 1,
                             !.remaining = remaining_time,
                             !.shown = IF RefreshDue(remaining_time)
                                       THEN calculate_codes(tui.secrets_map, <<>>, now)
                                       ELSE @]
    /\ UNCHANGED <<file, backup, keyring, rng, mig, cmd, result, out, race>>

\* update_code_list_widget: the text of the Input widget has changed
TuiFilter(account_filter) ==
    /\ tui.pc \in {"mounted", "ticked"}
    /\ tui' = [tui EXCEPT !.pc = "mounted",
                          !.shown = calculate_codes(tui.secrets_map, account_filter, tui.now)]
    /\ UNCHANGED <<file, backup, keyring, rng, mig, cmd, result, out, race>>

\* ------------------------------------------------------ the state machine
Next ==
    \/ Exit
    \/ Listsecrets
    \/ \E account \in Labels : Gen(account)
    \/ \E account \in Labels, secret \in Seeds : Add(account, secret)
    \/ \E account \in Labels : Rm(account)
    \/ \E pw \in Passwords : Unlock(pw)
    \/ \E confirm \in BOOLEAN : Lock(confirm)
    \/ UpgradeStart
    \/ \E pw \in Passwords : UpgradePrompt(pw)
    \/ UpgradePromptAbort
    \/ UpgradeOpen
    \/ UpgradeDumpError
    \/ UpgradeDump
    \/ \E confirm \in BOOLEAN : OldListsecrets(confirm)
    \/ \E confirm \in BOOLEAN, account \in Labels, secret \in OldSeeds :
          OldAdd(confirm, account, secret)
    \/ \E confirm \in BOOLEAN, account \in Labels : OldRm(confirm, account)
    \/ \E format \in Formats : Export(format)
    \/ \E confirm \in BOOLEAN, format \in Formats : OldExport(confirm, format)

Spec == Init /\ [][Next]_vars

\* the key and the store upgrade-config leaves, run with password p1 on the
\* format 1 store of one account: salt 1, nonce 2
StartKey == from_password("p1", 1)

StartStore ==
    Document(UpgradeVersion, 1,
             <<Entry(<<"a">>, encrypt_to_text(StartKey, 2, Plain(<<"X">>)))>>)

\* the state Spec reaches from that store by upgrade-config with p1
InitUpgraded ==
    /\ file = StartStore
    /\ backup = Document(1, 0, <<Entry(<<"A">>, Plain(<<"X">>))>>)
    /\ keyring = StartKey
    /\ rng = 2
    /\ mig = NoMig
    /\ cmd = "none"
    /\ result = R("none", "")
    /\ out = <<>>
    /\ race = NoRace
    /\ tui = NoTui

\* the state Spec reaches from no secrets.toml by upgrade-config with p1:
\* an unlocked format 3 store without accounts; two commands are to run
InitRace ==
    /\ file = Document(UpgradeVersion, 2, <<>>)
    /\ backup = Document(2, 1, <<>>)
    /\ keyring = from_password("p1", 2)
    /\ rng = 2
    /\ mig = NoMig
    /\ cmd = "none"
    /\ result = R("none", "")
    /\ out = <<>>
    /\ race = [p \in Procs |-> Idle]
    /\ tui = NoTui

\* add and rm run at the same time, and beside upgrade-config
NextRace ==
    \/ \E p \in Procs, op \in {"add", "rm"}, account \in RaceLabels :
          RaceGroup(p, op, account, <<"X">>)
    \/ \E p \in Procs : RaceLoad(p)
    \/ \E p \in Procs : RaceDump(p)
    \/ UpgradeStart
    \/ \E pw \in Passwords : UpgradePrompt(pw)
    \/ UpgradePromptAbort
    \/ UpgradeOpen
    \/ UpgradeDumpError
    \/ UpgradeDump
    \/ Exit

SpecRace == InitRace /\ [][NextRace]_vars

\* the tui command, run on the upgraded store
NextTui ==
    \/ \E now \in 0..(Subsecond - 1), mono \in 0..(Interval * Subsecond - 1) :
          TuiMount(now, mono)
    \/ TuiTick
    \/ \E account_filter \in Filters : TuiFilter(account_filter)

SpecTui == InitUpgraded /\ [][NextTui]_vars

\* ------------------------------------------------------------- claims
\* a step that starts the command name
Starts(name) == cmd = "none" /\ cmd' = name

IsStore(f) == f.kind = "store"

\* C1: upgrade-config on a store whose format_version is already 3 changes
\* neither the store file, nor the backup, nor the keyring, asks no password,
\* derives no key, and reports success.
C1_UpgradeAtV3IsNoOp ==
    [][(Starts("upgrade-config") /\ IsStore(file) /\ file.fv = 3)
         => (file' = file /\ backup' = backup /\ keyring' = keyring
             /\ mig' = NoMig /\ result' = Ok)]_vars

\* C2: a migration that completes preserves the resolved map: the map built
\* from the store before it with the key the keyring held before equals the
\* map built from the migrated store with the key the keyring holds after it
\* (upgrade-config with build_secret_map_from_toml; the format 1 -> 2
\* conversion with get_secrets, in the command that does nothing after it).
C2_MigrationFidelity ==
    [][/\ (mig.pc = "opened" /\ result' = Ok)
           => /\ build_secret_map_from_toml(keyring', file').err = ""
              /\ build_secret_map_from_toml(keyring', file').map
                   = build_secret_map_from_toml(mig.old_key, mig.pre).map
       /\ (OldListsecrets(TRUE) /\ IsStore(file) /\ file.fv = 1 /\ result' = Ok)
           => /\ get_secrets(keyring', file').err = ""
              /\ get_secrets(keyring', file').map = get_secrets(keyring, file).map]_vars

\* C2 witness: upgrade-config has completed on a format 2 store with an
\* account, read with a cached key
C2_Witness ==
    /\ cmd = "upgrade-config" /\ mig.pc = "idle" /\ result = Ok
    /\ mig.pre.fv = 2 /\ mig.old_key # NoKey /\ mig.map # <<>>
    /\ file.fv = 3 /\ Len(file.account) = Len(mig.pre.account)

\* C3: no step writes a lower format_version: a step from one document to
\* another does not lower it, and the document upgrade-config writes over the
\* opened file has a version at least that of the document it read.
C3_VersionOnlyIncreases ==
    [][/\ (IsStore(file) /\ IsStore(file')) => file'.fv >= file.fv
       /\ (mig.pc = "opened" /\ IsStore(file')) => file'.fv >= mig.pre.fv]_vars

\* C3 witness: upgrade-config has rewritten a format 1 store as format 3
C3_Witness ==
    /\ cmd = "upgrade-config" /\ mig.pc = "idle" /\ result = Ok
    /\ mig.pre.fv = 1 /\ file.fv = 3

\* C4: unlock on a format 3 store with a password whose derived key does not
\* decrypt the stored secrets reports "This password is incorrect" and
\* changes neither the keyring nor the store file.
C4_UnlockFailsClosed ==
    [][\A pw \in Passwords :
         (/\ Unlock(pw)
          /\ IsStore(file) /\ file.fv = 3
          /\ build_secret_map_from_toml(from_password(pw, file.salt), file).err
               = "InvalidToken")
         => (/\ result' = R("fail", "This password is incorrect")
             /\ keyring' = keyring
             /\ file' = file)]_vars

\* C4 witness: unlock has just refused a password, on a locked store
C4_Witness ==
    /\ cmd = "unlock" /\ result = R("fail", "This password is incorrect")
    /\ keyring = NoKey /\ file.fv = 3 /\ file.account # <<>>

\* a format 3 store whose key lock has removed from the keyring
Locked == IsStore(file) /\ file.fv = 3 /\ keyring = NoKey

\* C5: while the store is locked, every command that decrypts or encrypts
\* stored secrets (listsecrets, gen, add, upgrade-config) fails at once: it
\* resolves nothing, starts no re-encryption and leaves the store file alone.
C5_LockedOperationsFail ==
    [][(Locked /\ \E name \in {"listsecrets", "gen", "add", "upgrade-config"} : Starts(name))
         => (result'.status = "fail" /\ out' = <<>> /\ mig' = NoMig /\ file' = file)]_vars

\* C6: while upgrade-config runs and after it has ended, the backup file
\* holds the document the migration read whenever the store file differs
\* from it.
C6_BackupBeforeMutation ==
    (cmd = "upgrade-config" /\ IsStore(mig.pre) /\ file # mig.pre) => backup = mig.pre

\* C6 witness: the store file of a format 2 store with an account has been
\* opened for writing, and nothing is written in it yet
C6_Witness ==
    /\ mig.pc = "opened" /\ file = Truncated
    /\ mig.pre.fv = 2 /\ mig.pre.account # <<>> /\ backup = mig.pre

\* C7: a migration that ends in a failure leaves the store file with the
\* content it had when the migration read it.
C7_FailedMigrationKeepsFile ==
    (cmd = "upgrade-config" /\ mig.pc = "idle" /\ IsStore(mig.pre)
       /\ result.status \in {"fail", "crash"})
    => file = mig.pre

\* some account of the store has a label equal to label once both are
\* lower-cased and trimmed
Collides(account, label) ==
    \E i \in 1..Len(account) : Normalise(account[i].label) = Normalise(label)

\* C8: add of a label that equals, lower-cased and trimmed, the label of an
\* account of the store does not succeed and leaves the store file unchanged
\* (add of cli.py, and add of tetripin.py when no conversion precedes it).
C8_DuplicateAddRejected ==
    [][\A account \in Labels, secret \in Seeds :
         (/\ \/ Add(account, secret)
             \/ OldAdd(FALSE, account, secret)
          /\ IsStore(file)
          /\ Collides(file.account, account))
         => (file' = file /\ result'.status = "fail")]_vars

\* C9: no two labels of the store file are equal once lower-cased and
\* trimmed, and none normalises to the empty string.
C9_LabelsUniqueNonEmpty ==
    IsStore(file)
    => /\ \A i, j \in 1..Len(file.account) :
             i # j => Normalise(file.account[i].label) # Normalise(file.account[j].label)
       /\ \A i \in 1..Len(file.account) : Normalise(file.account[i].label) # <<>>

\* C10: gen of a query that equals, lower-cased and trimmed, the (non-empty)
\* normalised label of an account of an unlocked, readable store prints the
\* code of that account's seed: it resolves that account's stored secret.
C10_LookupNormalised ==
    [][\A query \in Labels :
         (/\ Gen(query)
          /\ IsStore(file)
          /\ cli("gen", file, keyring) = ""
          /\ build_secret_map_from_toml(keyring, file).err = ""
          /\ Normalise(query) # <<>>)
         => \A i \in 1..Len(file.account) :
               Normalise(file.account[i].label) = Normalise(query)
               => /\ result' = Ok
                  /\ out' = <<Entry(Normalise(query),
                                    decrypt_from_text(keyring, file.account[i].secret))>>]_vars

\* the map the command of this step resolved: secrets_map of upgrade_config,
\* else what the command prints
ResolvedMap == IF cmd' = "upgrade-config" THEN mig'.map ELSE out'

\* the command of this step resolved a map
ResolvedOk == IF cmd' = "upgrade-config" THEN mig'.pc = "resolved" ELSE result' = Ok

\* a step in which a command resolves the secrets of the store as it stands
Resolves ==
    /\ IsStore(file) /\ file' = file
    /\ \/ Starts("upgrade-config")
       \/ Starts("old-listsecrets")
       \/ Starts("listsecrets") /\ cli("listsecrets", file, keyring) = ""

\* C11: a command that resolves the secrets of a store decides from the
\* store's format_version: at format 1 it resolves, whatever the keyring
\* holds, and every resolved secret is a stored secret as stored; above
\* format 1, every secret it resolves is a stored secret decrypted with the
\* key, never the stored ciphertext itself.
C11_ResolveByFormatVersion ==
    [][Resolves =>
         /\ file.fv = 1 =>
              /\ ResolvedOk
              /\ \A i \in 1..Len(ResolvedMap) : \E j \in 1..Len(file.account) :
                    /\ Normalise(file.account[j].label) = ResolvedMap[i].label
                    /\ ResolvedMap[i].secret = StripSecret(file.account[j].secret)
         /\ (file.fv > 1 /\ ResolvedOk) =>
              \A i \in 1..Len(ResolvedMap) : \E j \in 1..Len(file.account) :
                    /\ Normalise(file.account[j].label) = ResolvedMap[i].label
                    /\ CanDecrypt(keyring', file.account[j].secret)
                    /\ ResolvedMap[i].secret
                         = decrypt_from_text(keyring', file.account[j].secret)]_vars

\* the keys a command can be given in this state: the cached one, the ones
\* unlock derives from a password and the salt of the store, and the random
\* one tetripin.py would make next
KeysTried ==
    ({keyring} \cup {from_password(pw, file.salt) : pw \in Passwords}
               \cup {generate_key(rng + 1)}) \ {NoKey}

\* the key the token s was last encrypted under
OuterKey(s) == s.layers[Len(s.layers)].k

\* C12: decrypting a stored token with a key other than the one it was
\* encrypted under fails, and resolving a store that holds such a token ends
\* in InvalidToken with no map at all, in both front ends.
C12_WrongKeyFailsClosed ==
    IsStore(file) =>
      \A k \in KeysTried : \A j \in 1..Len(file.account) :
         (/\ Normalise(file.account[j].label) # <<>>
          /\ IsToken(file.account[j].secret)
          /\ OuterKey(file.account[j].secret) # k)
         => /\ ~CanDecrypt(k, file.account[j].secret)
            /\ build_secret_map_from_toml(k, file) = [err |-> "InvalidToken", map |-> <<>>]
            /\ file.fv > 1 => get_secrets(k, file) = [err |-> "InvalidToken", map |-> <<>>]

\* C12 witness: listsecrets has ended in InvalidToken on a format 3 store,
\* the keyring holding a key other than the one of the stored secret
C12_Witness ==
    /\ cmd = "listsecrets" /\ result = R("crash", "InvalidToken")
    /\ file.fv = 3 /\ file.account # <<>>
    /\ keyring # NoKey /\ keyring # OuterKey(file.account[1].secret)

C14_FirstUseCreatesV1 ==
    [][(file = Absent /\ IsStore(file'))
         => /\ file'.fv = 1
            /\ file'.salt = 0
            /\ cmd' # "old-add" => file'.account = <<>>]_vars

\* C15: a store file at format 3 has a salt, and a store file at format 1
\* or 2 has none.
C15_SaltInvariant ==
    IsStore(file) => /\ file.fv = 3 => file.salt # 0
                     /\ file.fv \in {1, 2} => file.salt = 0

\* the accounts are as the add and migration of the store's format write
\* them: labels unique and non-empty once normalised, secrets in clear at
\* format 1 and under one layer of encryption above
WellFormed(f) ==
    /\ \A i, j \in 1..Len(f.account) :
          i # j => Normalise(f.account[i].label) # Normalise(f.account[j].label)
    /\ \A i \in 1..Len(f.account) :
          /\ Normalise(f.account[i].label) # <<>>
          /\ Len(f.account[i].secret.layers) = (IF f.fv = 1 THEN 0 ELSE 1)

\* C16: an export that succeeds on a well-formed store writes one record per
\* account, in the order of the store: its label is the normalised label of
\* the account, its secret the seed of the account in clear, its other
\* fields the fixed values.
C16_ExportOneRecordPerAccount ==
    [][(/\ Starts("export") \/ Starts("old-export")
        /\ IsStore(file) /\ file' = file /\ WellFormed(file)
        /\ result' = Ok)
       => out' = [i \in 1..Len(file.account) |->
                    ExportRecord(Normalise(file.account[i].label),
                                 Plain(Strip(file.account[i].secret.seed)))]]_vars

\* C17: rm of a label the store does not hold fails and leaves the store
\* file unchanged; rm of a label it holds succeeds, prints the removed entry,
\* deletes that account and nothing else (rm of cli.py once the group lets
\* it run, and rm of tetripin.py when no conversion precedes it).
C17_RemoveExact ==
    [][\A account \in Labels :
         (/\ \/ Rm(account) /\ cli("rm", file, keyring) = ""
             \/ OldRm(FALSE, account)
          /\ IsStore(file))
         => IF HasLabel(file.account, account)
            THEN /\ result' = Ok
                 /\ out' = <<Entry(account, Lookup(file.account, account))>>
                 /\ file' = [file EXCEPT !.account = Pop(@, account)]
            ELSE /\ result'.status = "fail"
                 /\ file' = file]_vars

\* the labels of the accounts, lower-cased and trimmed
NormLabels(account) == {Normalise(account[i].label) : i \in 1..Len(account)}

\* C18: a migration that completes writes a store with as many accounts as
\* the store it read and with the same labels, compared lower-cased and
\* trimmed (upgrade-config, and the format 1 -> 2 conversion in the command
\* that does nothing after it).
C18_MigrationOneToOne ==
    [][/\ (mig.pc = "opened" /\ result' = Ok)
           => /\ Len(file'.account) = Len(mig.pre.account)
              /\ NormLabels(file'.account) = NormLabels(mig.pre.account)
       /\ (OldListsecrets(TRUE) /\ IsStore(file) /\ file.fv = 1 /\ result' = Ok)
           => /\ Len(file'.account) = Len(file.account)
              /\ NormLabels(file'.account) = NormLabels(file.account)]_vars

\* C19: no command ends in an exception nothing handles.
C19_NoUnhandledException == result.status # "crash"

\* C20: while upgrade-config migrates a format 2 store and once it has
\* ended, the keyring holds the key derived from the new password only if
\* the store file holds the document written with format_version 3, the new
\* salt and the re-encrypted secrets.
C20_KeyCachedAfterWrite ==
    (/\ cmd = "upgrade-config" /\ IsStore(mig.pre) /\ mig.pre.fv = 2
     /\ mig.key # NoKey /\ keyring = mig.key)
    => (/\ IsStore(file) /\ file.fv = 3 /\ file.salt = mig.salt
        /\ file = UpgradeData(mig, rng - Len(mig.map)))

\* some account with a label has a secret that is empty once trimmed
HasBlankSecret(f) ==
    \E j \in 1..Len(f.account) :
       /\ Normalise(f.account[j].label) # <<>>
       /\ IsBlank(StripSecret(f.account[j].secret))

\* C21: no account of the store file has a secret that is empty once
\* trimmed; and were there one, both resolve functions would end in the
\* typed error of the repository, with no map.
C21_MissingSecret ==
    IsStore(file) =>
      /\ \A j \in 1..Len(file.account) : ~IsBlank(StripSecret(file.account[j].secret))
      /\ HasBlankSecret(file) =>
            /\ build_secret_map_from_toml(NoKey, file) = [err |-> "TetripinError", map |-> <<>>]
            /\ get_secrets(keyring, file) = [err |-> "TetripinError", map |-> <<>>]

\* C22: every stored secret of a store at format 2 or 3 is a seed under
\* exactly one layer of encryption.
C22_SingleLayer ==
    (IsStore(file) /\ file.fv \in {2, 3})
    => \A j \in 1..Len(file.account) : Len(file.account[j].secret.layers) = 1

\* every stored secret is a seed encrypted once, under key
MigratedUnder(f, key) ==
    \A j \in 1..Len(f.account) :
       /\ Len(f.account[j].secret.layers) = 1
       /\ OuterKey(f.account[j].secret) = key

\* C23: on a locked format 3 store whose secrets a migration encrypted under
\* the key it derived from a password, unlock with that password succeeds,
\* leaves the file alone, caches that very key, and the map then resolved has
\* the labels and the seeds that key resolves.
C23_UnlockReconstructsKey ==
    [][\A pw \in Passwords : \A n \in 1..MaxRng :
         (/\ Unlock(pw)
          /\ Locked /\ file.account # <<>>
          /\ MigratedUnder(file, from_password(pw, n)))
         => /\ result' = Ok
            /\ file' = file
            /\ keyring' = from_password(pw, n)
            /\ build_secret_map_from_toml(keyring', file')
                 = [err |-> "", map |-> BuildLoop(from_password(pw, n), file.account, <<>>).map]
            /\ \A i \in 1..Len(build_secret_map_from_toml(keyring', file').map) :
                  ~IsToken(build_secret_map_from_toml(keyring', file').map[i].secret)]_vars

\* C23 witness: a store migrated under the key of a password is locked, and
\* an unlock with another password has just been refused
C23_Witness ==
    /\ cmd = "unlock" /\ result = R("fail", "This password is incorrect")
    /\ Locked /\ file.account # <<>>
    /\ \E pw \in Passwords : MigratedUnder(file, from_password(pw, file.salt))

\* C26: between two commands, when the keyring holds a key and the store is
\* at format 2 or 3 (its labels not empty once normalised), that key decrypts
\* every stored secret, and all stored secrets are encrypted under one key.
C26_KeyStoreConsistent ==
    (/\ cmd = "none" /\ IsStore(file) /\ file.fv \in {2, 3}
     /\ \A j \in 1..Len(file.account) : Normalise(file.account[j].label) # <<>>)
    => /\ keyring # NoKey
          => \A j \in 1..Len(file.account) : CanDecrypt(keyring, file.account[j].secret)
       /\ \A i, j \in 1..Len(file.account) :
             (IsToken(file.account[i].secret) /\ IsToken(file.account[j].secret))
             => OuterKey(file.account[i].secret) = OuterKey(file.account[j].secret)

\* C25: after every tick of the timer, the remaining validity the tui shows
\* is the one of the wall clock, Interval - (now mod Interval) rounded down
\* to the second, and every code it displays is the code of the time step
\* the wall clock is in.
C25_TuiTimer ==
    tui.pc = "ticked"
    => /\ tui.remaining
            = (Interval * Subsecond - (tui.now % (Interval * Subsecond))) \div Subsecond
       /\ \A c \in tui.shown : c.step = TimeStep(tui.now)

\* command p writes the store file in this step
Writes(p) == race[p].pc = "loaded" /\ race'[p].pc = "done"

\* C24: nothing isolates the commands that rewrite the store: the file a
\* command writes is made of the data it loaded, so an account another
\* command has put in the file since is gone after the write, the format
\* and salt written since by upgrade-config are replaced by the ones loaded,
\* and the secret add writes is encrypted under the key read at the start,
\* whatever the keyring holds by then.
C24_NoIsolation ==
    [][\A p \in Procs :
         Writes(p) =>
           /\ IsStore(file) =>
                \A j \in 1..Len(file.account) :
                   (/\ ~HasLabel(race[p].data.account, file.account[j].label)
                    /\ file.account[j].label # race[p].account)
                   => ~HasLabel(file'.account, file.account[j].label)
           /\ file'.fv = race[p].data.fv /\ file'.salt = race[p].data.salt
           /\ race[p].op = "add"
                => OuterKey(Lookup(file'.account, race[p].account)) = race[p].key]_vars

\* C24 witness: two add of distinct labels have both succeeded, and the
\* account of one of them is not in the store file
C24_Witness ==
    /\ race # NoRace
    /\ \A p \in Procs : race[p].pc = "done" /\ race[p].op = "add" /\ race[p].res = Ok
    /\ race[1].account # race[2].account
    /\ IsStore(file)
    /\ \E p \in Procs : ~HasLabel(file.account, race[p].account)

====
